---- MODULE Spec2Model ----
(***************************************************************************)
(* DC Now: the asynchronous fetch pipeline of openMenu.                    *)
(*   dcnow_json.c   the JSON decoder (skip_whitespace .. dcnow_json_parse) *)
(*   dcnow_api.c    http_get_request, dcnow_fetch_data and the cache       *)
(*   dcnow_worker.h the worker state machine (its .c file is not part of   *)
(*                  the sources; the body follows the specification, 4.3) *)
(* C strings are TLA+ strings; a position is 1-based and the terminating   *)
(* NUL is the empty string read at position Len(s) + 1.                    *)
(***************************************************************************)
EXTENDS Integers, Sequences, FiniteSets, TLC

(***************************************************************************)
(* Text helpers (libc)                                                     *)
(***************************************************************************)
Min(a, b) == IF a < b THEN a ELSE b

NUL == ""
QUOTE == "\""
BACKSLASH == "\\"
CRLF == "\r\n"

\* *p for a NUL-terminated string: the byte at position p, NUL at the end.
At(s, p) == IF p >= 1 /\ p <= Len(s) THEN SubSeq(s, p, p) ELSE NUL

\* isspace(3) in the C locale.
isspace(c) == c \in {" ", "\t", "\n", "\r", "\f"}

Digits == <<"0", "1", "2", "3", "4", "5", "6", "7", "8", "9">>

\* isdigit(3)
isdigit(c) == \E d \in 1..10 : Digits[d] = c

\* c - '0' for a digit c
DigitVal(c) == (CHOOSE d \in 1..10 : Digits[d] = c) - 1

\* The text from position p to the end (the C string a pointer p denotes).
From(s, p) == IF p > Len(s) THEN "" ELSE SubSeq(s, p, Len(s))

\* strncmp(s + (p-1), t, Len(t)) == 0
StartsWithAt(s, p, t) == p + Len(t) - 1 <= Len(s) /\ SubSeq(s, p, p + Len(t) - 1) = t

RECURSIVE IndexFrom(_, _, _)
\* strstr / strchr from position p: the position of the first occurrence of t
\* at or after p, 0 (NULL) when there is none.
IndexFrom(s, p, t) ==
    IF p + Len(t) - 1 > Len(s) THEN 0
    ELSE IF StartsWithAt(s, p, t) THEN p
    ELSE IndexFrom(s, p + 1, t)

(***************************************************************************)
(* dcnow_json.c                                                            *)
(***************************************************************************)
\* let x = v in F(x), with v evaluated once
Let(v, F(_)) == CHOOSE r \in {F(x) : x \in {v}} : TRUE

RECURSIVE skip_whitespace(_, _)
skip_whitespace(s, p) ==
    IF isspace(At(s, p)) THEN skip_whitespace(s, p + 1) ELSE p

\* The character an escape sequence \c decodes to.
Unescape(c) ==
    CASE c = "n" -> "\n"
      [] c = "t" -> "\t"
      [] c = "r" -> "\r"
      [] OTHER -> c

RECURSIVE parse_string_loop(_, _, _, _)
\* The while loop of parse_string: [p, out, ok]; ok = FALSE is the
\* "return NULL" inside the loop (a backslash followed by the terminator).
parse_string_loop(s, p, out, max_len) ==
    Let(At(s, p), LAMBDA c :
      IF c # NUL /\ c # QUOTE /\ Len(out) < max_len - 1
      THEN IF c # BACKSLASH
           THEN parse_string_loop(s, p + 1, out \o c, max_len)
           ELSE Let(At(s, p + 1), LAMBDA e :
                  IF e = NUL THEN [p |-> p + 1, out |-> out, ok |-> FALSE]
                  ELSE parse_string_loop(s, p + 2, out \o Unescape(e), max_len))
      ELSE [p |-> p, out |-> out, ok |-> TRUE])

\* parse_string: next = 0 is the NULL return; out is what the destination
\* holds afterwards.
parse_string(s, p, max_len) ==
    IF At(s, p) # QUOTE THEN [next |-> 0, out |-> ""]
    ELSE Let(parse_string_loop(s, p + 1, "", max_len), LAMBDA r :
           [next |-> IF r.ok /\ At(s, r.p) = QUOTE THEN r.p + 1 ELSE 0, out |-> r.out])

RECURSIVE parse_digits(_, _, _)
\* while (isdigit(*p)) { value = value * 10 + (*p - '0'); p++; }
parse_digits(s, p, value) ==
    Let(At(s, p), LAMBDA c :
      IF isdigit(c) THEN parse_digits(s, p + 1, value * 10 + DigitVal(c))
      ELSE [next |-> p, value |-> value])

\* parse_number: next = 0 is the NULL return (then *out is not written).
parse_number(s, p) ==
    Let(At(s, p) = "-", LAMBDA neg :
    Let(IF neg THEN p + 1 ELSE p, LAMBDA q :
      IF ~isdigit(At(s, q)) THEN [next |-> 0, value |-> 0]
      ELSE Let(parse_digits(s, q, 0), LAMBDA r :
             [next |-> r.next, value |-> IF neg THEN 0 - r.value ELSE r.value])))

\* The test of find_key on the quoted text at search: the position of its
\* closing quote when *search is a quote and the text equals key, else 0.
KeyEnd(s, search, key) ==
    IF At(s, search) # QUOTE THEN 0
    ELSE Let(IndexFrom(s, search + 1, QUOTE), LAMBDA key_end :
           IF /\ key_end # 0
              /\ key_end - (search + 1) = Len(key)
              /\ StartsWithAt(s, search + 1, key)
           THEN key_end ELSE 0)

RECURSIVE find_key(_, _, _)
\* find_key: the position of the value of the first quoted key equal to key
\* that is followed by a colon, 0 (NULL) when there is none.  A read past the
\* terminator (search++ on the terminator) reads NUL here.
find_key(s, p, key) ==
    IF At(s, p) = NUL THEN 0
    ELSE Let(skip_whitespace(s, p), LAMBDA search :
         Let(KeyEnd(s, search, key), LAMBDA key_end :
           IF key_end = 0 THEN find_key(s, search + 1, key)
           ELSE Let(skip_whitespace(s, key_end + 1), LAMBDA after :
                  IF At(s, after) = ":" THEN skip_whitespace(s, after + 1)
                  ELSE find_key(s, after + 1, key))))

RECURSIVE skip_object(_, _, _)
\* "Skip to end of object": the brace-counting loop.
skip_object(s, p, brace_count) ==
    Let(At(s, p), LAMBDA c :
      IF c # NUL /\ brace_count > 0
      THEN skip_object(s, p + 1,
                       CASE c = "{" -> brace_count + 1
                         [] c = "}" -> brace_count - 1
                         [] OTHER -> brace_count)
      ELSE p)

\* The "name" field of a game: what game->name holds after the lookup.
GameName(s, name_val, name_len) ==
    IF name_val = 0 THEN ""
    ELSE Let(parse_string(s, name_val, name_len), LAMBDA str :
           IF str.next # 0 THEN str.out ELSE "")

\* A numeric field: the parsed value, 0 when the key is absent (the zeroed
\* field is left alone) or the number is malformed.
NumberField(s, val) ==
    IF val = 0 THEN 0
    ELSE Let(parse_number(s, val), LAMBDA num : IF num.next # 0 THEN num.value ELSE 0)

\* The body of one iteration of the games loop, from the '{' at position p:
\* the decoded game and the position after the object and its comma.
parse_game(s, p, name_len) ==
    Let(skip_whitespace(s, skip_object(s, p + 1, 1)), LAMBDA q :
      [game |-> [name |-> GameName(s, find_key(s, p + 1, "name"), name_len),
                 players |-> NumberField(s, find_key(s, p + 1, "players"))],
       next |-> IF At(s, q) = "," THEN q + 1 ELSE q])

RECURSIVE parse_games(_, _, _, _, _)
\* The "Parse each game object" loop: the games decoded so far, in order.
parse_games(s, p, games, max_games, name_len) ==
    Let(At(s, p), LAMBDA c :
      IF c # NUL /\ c # "]" /\ Len(games) < max_games
      THEN Let(skip_whitespace(s, p), LAMBDA q :
             IF At(s, q) # "{" THEN games
             ELSE Let(parse_game(s, q, name_len), LAMBDA g :
                    parse_games(s, g.next, Append(games, g.game), max_games, name_len)))
      ELSE games)

\* What *result holds when dcnow_json_parse returns false.
JsonFail ==
    [ok |-> FALSE, total_players |-> 0, games |-> <<>>, game_count |-> 0,
     valid |-> FALSE]

\* dcnow_json_parse with JSON_MAX_GAMES = max_games and JSON_MAX_NAME_LEN =
\* name_len: ok is the return value, the other fields are *result (games: the
\* entries below game_count; the others stay zeroed).
dcnow_json_parse(s, max_games, name_len) ==
    Let(skip_whitespace(s, 1), LAMBDA p0 :
      IF At(s, p0) # "{" THEN JsonFail
      ELSE
        Let(NumberField(s, find_key(s, p0 + 1, "total_players")), LAMBDA total :
        Let(find_key(s, p0 + 1, "games"), LAMBDA games_val :
          IF games_val = 0 \/ At(s, games_val) # "["
          THEN [ok |-> TRUE, total_players |-> total, games |-> <<>>, game_count |-> 0,
                valid |-> TRUE]
          ELSE Let(parse_games(s, skip_whitespace(s, games_val + 1), <<>>,
                               max_games, name_len), LAMBDA games :
                 [ok |-> TRUE, total_players |-> total, games |-> games,
                  game_count |-> Len(games), valid |-> TRUE]))))

(***************************************************************************)
(* Bounds of the model                                                     *)
(***************************************************************************)
\* Capacity of dcnow_data_t.games (MAX_DCNOW_GAMES of dcnow_api.h), scaled.
MaxDcnowGames == 2
\* Capacity of a decoded name (JSON_MAX_NAME_LEN) and of game_name
\* (MAX_GAME_NAME_LEN), scaled.
JsonMaxNameLen == 4
MaxGameNameLen == 3
\* timeout_ms of a fetch, in units of one select() wait (100 ms).
TimeoutTicks == 1
\* dcnow_fetch_data calls in one run of the model.
MaxFetches == 2
\* The bytes one short recv() delivers.
RecvChunk == 64

\* sizeof(response) in dcnow_fetch_data
ResponseSize == 8192
\* max_wait in dcnow_net_early_init: polls of 100 ms
MaxWait == 300

Ctxs == {1, 2}
\* The contexts the caller fetches on; it connects on every context.
FetchCtxs == {1}
\* The dcnow_data_t structures: slot 0 is the structure a direct caller of
\* dcnow_fetch_data owns, slot c is ctx c's result_data.
Slots == {0} \cup Ctxs
GameIdx == 1..MaxDcnowGames

\* The values JSON_MAX_GAMES (dcnow_json.h) may have relative to MAX_DCNOW_GAMES.
JsonCapacities == {MaxDcnowGames, MaxDcnowGames + 1}

(***************************************************************************)
(* The server side: the responses the peer may put on the wire             *)
(***************************************************************************)
Letters == <<"A", "B", "C", "D", "E", "F", "G", "H">>

GameObj(i) ==
    "{\"name\":\"" \o Letters[i] \o "\",\"players\":" \o ToString(i - 1) \o "}"

RECURSIVE GameList(_)
GameList(n) ==
    IF n = 0 THEN ""
    ELSE IF n = 1 THEN GameObj(1)
    ELSE GameList(n - 1) \o "," \o GameObj(n)

\* The wire payload of spec.md section 6 with n games.
Body(n) == "{\"total_players\":" \o ToString(n) \o ",\"games\":[" \o GameList(n) \o "]}"

Boundary == CRLF \o CRLF
Ok200 == "HTTP/1.1 200 OK" \o Boundary

Wires ==
    { Ok200 \o Body(1),
      Ok200 \o Body(MaxDcnowGames + 2),
      Ok200 \o "[1]",
      "HTTP/1.1 404 Not Found" \o Boundary \o "{}",
      "ICY 404 Gone" \o Boundary \o Body(1),
      "HTTP/1.1" \o Boundary \o "{}",
      "HTTP/1.1 404 Not Found" \o CRLF }

RECURSIVE Filler(_)
\* n bytes of payload
Filler(n) == IF n = 0 THEN "" ELSE "x" \o Filler(n - 1)

\* What the peer of a bare request holds: less than a buffer, more than one.
HttpWires == {Filler(3), Filler(2 * RecvChunk + 10)}
\* The buf_size a bare request is made with: no room, one byte, three reads.
BufSizes == {1, 2, 2 * RecvChunk + 2}

\* The two feeds the server of the worker runs answers with.
WorkerWires == {Ok200 \o Body(1), Ok200 \o Body(2)}

(***************************************************************************)
(* dcnow_data_t and the worker context                                     *)
(***************************************************************************)
ZeroGame == [game_name |-> "", player_count |-> 0, is_active |-> FALSE]

\* memset(data, 0, sizeof(dcnow_data_t))
ZeroData ==
    [total_players |-> 0, game_count |-> 0, games |-> [i \in GameIdx |-> ZeroGame],
     data_valid |-> FALSE, last_update_time |-> 0, error_message |-> ""]

\* strncpy(dst, src, n - 1); dst[n - 1] = '\0'
Strncpy(src, n) == IF Len(src) > n - 1 THEN SubSeq(src, 1, n - 1) ELSE src

\* The first and the second part of a memcpy of a dcnow_data_t that another
\* context may interleave with.
CopyPart1(dst, src) ==
    [dst EXCEPT !.total_players = src.total_players, !.game_count = src.game_count,
                !.games = src.games]
CopyPart2(dst, src) ==
    [dst EXCEPT !.data_valid = src.data_valid,
                !.last_update_time = src.last_update_time,
                !.error_message = src.error_message]

IdleCtx ==
    [state |-> "IDLE", status_message |-> "", error_code |-> 0,
     cancel_requested |-> FALSE]

VARIABLES
    cached_data,          \* static dcnow_data_t cached_data
    cache_valid,          \* static bool cache_valid
    network_initialized,  \* static bool network_initialized
    json_max_games,       \* JSON_MAX_GAMES of the build
    served,               \* the responses the server can produce
    data,                 \* the dcnow_data_t structures, by slot
    ctx,                  \* the dcnow_worker_context_t of each context
    worker,               \* the worker thread: busy flag, its context, its position
    call,                 \* the activation of dcnow_fetch_data
    http,                 \* the activation of http_get_request
    reader,               \* the read the main context is in
    parse,                \* the activation of dcnow_json_parse on a text of its own
    net,                  \* the activation of dcnow_net_early_init
    hist                  \* history: what the properties compare against

vars == <<cached_data, cache_valid, network_initialized, json_max_games, served, parse, net, data, ctx,
          worker, call, http, reader, hist>>

NoCall == [pc |-> "idle", slot |-> 0, ret |-> 0, by |-> "none", result |-> 0]
NoHttp ==
    [sock |-> "none", closes |-> 0, elapsed |-> 0, total_received |-> 0,
     wire |-> "", buf_size |-> ResponseSize]
NoReader == [pc |-> "idle", from |-> 0, copy |-> ZeroData, ret |-> FALSE, seen |-> {}]
NoWorker == [busy |-> FALSE, ctx |-> 0, op |-> "none", pc |-> "none", code |-> 0]
NoParse ==
    [pc |-> "none", kind |-> "none", text |-> "",
     value |-> [total_players |-> 0, games |-> <<>>], result |-> JsonFail]
NoNet ==
    [pc |-> "none", arch |-> "dreamcast", libppp |-> "linked", dev |-> "none",
     link_up |-> FALSE, dialing |-> FALSE, wait_count |-> 0, acquired |-> <<>>,
     released |-> <<>>, seen_up |-> FALSE, stage |-> "none", result |-> 0]

\* The statics as the program is loaded, idle contexts, nothing active.
Statics ==
    /\ cached_data = ZeroData
    /\ cache_valid = FALSE
    /\ network_initialized = FALSE
    /\ data = [s \in Slots |-> ZeroData]
    /\ ctx = [c \in Ctxs |-> IdleCtx]
    /\ worker = NoWorker
    /\ call = NoCall
    /\ http = NoHttp
    /\ reader = NoReader

\* The history before anything has run.
NoHist ==
    [fetches |-> 0,
    cache_before |-> [data |-> ZeroData, valid |-> FALSE],
    out_before |-> ZeroData,
    last_good |-> ZeroData,
    stored |-> ZeroData,
    cleared |-> TRUE,
    zeroed |-> TRUE,
    yielded_cancelled |-> FALSE,
    observe |-> FALSE,
    sent |-> "none",
    event |-> "none",
    silence |-> 0,
    published |-> [c \in Ctxs |-> ZeroData],
    kind |-> [c \in Ctxs |-> "none"]]

\* The state after the program is loaded.
Loaded == Statics /\ hist = NoHist

\* The sequential API against every response, under each decoder capacity.
Init ==
    /\ Loaded
    /\ json_max_games \in JsonCapacities
    /\ served = Wires
    /\ parse = NoParse
    /\ net = NoNet

\* http_get_request on its own, observed.
InitHttp ==
    /\ Statics
    /\ hist = [NoHist EXCEPT !.observe = TRUE]
    /\ json_max_games = MaxDcnowGames
    /\ served = HttpWires
    /\ parse = NoParse
    /\ net = NoNet

\* The worker against a server that answers with one of two feeds.
InitWorker ==
    /\ Loaded
    /\ json_max_games = MaxDcnowGames
    /\ served = WorkerWires
    /\ parse = NoParse
    /\ net = NoNet

(***************************************************************************)
(* dcnow_api.c: dcnow_fetch_data after http_get_request has returned       *)
(***************************************************************************)
RECURSIVE atoi_digits(_, _, _)
atoi_digits(s, p, value) ==
    Let(At(s, p), LAMBDA c :
      IF isdigit(c) THEN atoi_digits(s, p + 1, value * 10 + DigitVal(c)) ELSE value)

\* atoi(3) of the text at position p
atoi(s, p) ==
    Let(skip_whitespace(s, p), LAMBDA q :
    Let(At(s, q), LAMBDA sign :
    Let(atoi_digits(s, IF sign \in {"-", "+"} THEN q + 1 ELSE q, 0), LAMBDA v :
      IF sign = "-" THEN 0 - v ELSE v)))

\* The text for which the network error switch sets error_message.
NetworkErrorText(result) ==
    CASE result = -2 -> "Socket creation failed"
      [] result = -3 -> "DNS lookup failed"
      [] result = -4 -> "Connection failed/timeout"
      [] result = -5 -> "Failed to send request"
      [] result = -6 -> "Failed to receive data"
      [] OTHER -> "Network error"

\* A status check that lets every code through.
StatusCode_unchecked(response) == 200

\* "Check for HTTP error status": the status code the response is rejected
\* with (-8), 200 when the check lets the response pass.  A response that does
\* not begin with "HTTP/1.", or holds no space, passes.
StatusCode(response) ==
    IF ~StartsWithAt(response, 1, "HTTP/1.") THEN 200
    ELSE Let(IndexFrom(response, 1, " "), LAMBDA status_code_start :
           IF status_code_start = 0 THEN 200
           ELSE atoi(response, status_code_start + 1))

Outcome(ret, text, json) == [ret |-> ret, error_message |-> text, json |-> json]

\* "Parse JSON" and the two checks after it.
DecodeBody(body, max_games) ==
    Let(dcnow_json_parse(body, max_games, JsonMaxNameLen), LAMBDA json :
      IF ~json.ok THEN Outcome(-9, "JSON parse error", JsonFail)
      ELSE IF ~json.valid THEN Outcome(-10, "Invalid JSON data", JsonFail)
      ELSE Outcome(0, "", json))

\* dcnow_fetch_data from "Find the JSON body" to "Invalid JSON data": the
\* return code (0: go on to copy), the error text and the decoded json_result.
ProcessResponse(response, max_games) ==
    Let(IndexFrom(response, 1, Boundary), LAMBDA json_start :
      IF json_start = 0 THEN Outcome(-7, "Invalid HTTP response", JsonFail)
      ELSE Let(StatusCode(response), LAMBDA status_code :
             IF status_code # 200
             THEN Outcome(-8, "HTTP error " \o ToString(status_code), JsonFail)
             ELSE Let(From(response, json_start + 4), LAMBDA body :
                    DecodeBody(body, max_games))))

\* "Copy parsed data to result structure": total_players, game_count and the
\* loop over i < json_result.game_count && i < MAX_DCNOW_GAMES.
CopyParsed(d, json) ==
    [d EXCEPT !.total_players = json.total_players,
              !.game_count = json.game_count,
              !.games = [i \in GameIdx |->
                  IF i <= json.game_count
                  THEN [game_name |-> Strncpy(json.games[i].name, MaxGameNameLen),
                        player_count |-> json.games[i].players,
                        is_active |-> json.games[i].players > 0]
                  ELSE d.games[i]]]

\* The response buffer: the bytes received so far, NUL-terminated.
Response == SubSeq(http.wire, 1, http.total_received)

\* Every text the response buffer can hold, and what dcnow_fetch_data makes of
\* it under each decoder capacity: ProcessResponse, evaluated once per text.
Responses ==
    UNION {{SubSeq(w, 1, n) : n \in 0..Min(Len(w), ResponseSize - 1)} :
           w \in Wires \cup WorkerWires}
Processed ==
    [r \in Responses |-> [m \in JsonCapacities |-> ProcessResponse(r, m)]]


(***************************************************************************)
(* dcnow_fetch_data, step by step                                          *)
(***************************************************************************)
\* Entry: "if (!data) return -1" is ApiFetchNull; otherwise the call starts.
FetchEnter(slot, by) ==
    /\ call.pc = "idle"
    /\ hist.fetches < MaxFetches
    /\ call' = [NoCall EXCEPT !.pc = "memset", !.slot = slot, !.by = by]
    /\ http' = NoHttp
    /\ hist' = [hist EXCEPT !.fetches = @ + 1,
                            !.cache_before = [data |-> cached_data, valid |-> cache_valid],
                            !.out_before = data[slot],
                            !.yielded_cancelled = FALSE]

\* An entry that leaves the caller's structure as it was.
ClearData_keeps(d) == d

\* memset(data, 0, sizeof(dcnow_data_t))
ClearData(d) == ZeroData

FetchMemset ==
    /\ call.pc = "memset"
    /\ data' = [data EXCEPT ![call.slot] = ClearData(@)]
    /\ call' = [call EXCEPT !.pc = "open"]
    /\ UNCHANGED <<cached_data, cache_valid, network_initialized, json_max_games, served, parse, net, ctx,
                   worker, http, reader, hist>>

(***************************************************************************)
(* dcnow_api.c: http_get_request, one action per stretch between two       *)
(* yields (thd_pass) or returns                                            *)
(***************************************************************************)
\* A return path that forgets the socket.
CloseSock_leaks(h) == h

\* close(sock)
CloseSock(h) == [h EXCEPT !.sock = "closed", !.closes = @ + 1]

\* return code: http_get_request returns to dcnow_fetch_data.
HttpReturn(code) == call' = [call EXCEPT !.pc = "http_ret", !.result = code]

\* thd_pass(): the yield point; the history records a yield that happens
\* while the context of the run has cancel_requested set.
ThdPassed(h) ==
    IF call.by = "worker" /\ ctx[worker.ctx].cancel_requested
    THEN [h EXCEPT !.yielded_cancelled = TRUE]
    ELSE h
ThdPass == hist' = ThdPassed(hist)

\* The history of an observed request: what send() transmitted, the last
\* thing the receive loop met, and the ticks since the last byte arrived.
Noted(h, sent, event, silence) ==
    IF h.observe
    THEN [h EXCEPT !.sent = sent, !.event = event, !.silence = silence]
    ELSE h

HttpFrame == <<cached_data, cache_valid, network_initialized, json_max_games, served, parse, net, data, ctx,
               worker, reader>>

\* socket(), setsockopt(), gethostbyname() and connect().
HttpOpen ==
    /\ call.pc = "open"
    /\ \/ /\ http' = [http EXCEPT !.sock = "none"]            \* socket() < 0
          /\ HttpReturn(-2)
       \/ /\ http' = CloseSock([http EXCEPT !.sock = "open"])  \* no host
          /\ HttpReturn(-3)
       \/ \E w \in served, connected \in BOOLEAN :
             /\ http' = [http EXCEPT !.sock = "open", !.wire = w]
             /\ call' = [call EXCEPT !.pc = IF connected THEN "send" ELSE "connect_wait"]
    /\ UNCHANGED <<HttpFrame, hist>>

\* One iteration of "Wait for connection with timeout".
HttpConnectWait ==
    /\ call.pc = "connect_wait"
    /\ IF http.elapsed > TimeoutTicks
       THEN /\ http' = CloseSock(http)
            /\ HttpReturn(-4)
            /\ UNCHANGED hist
       ELSE \/ /\ call' = [call EXCEPT !.pc = "send"]          \* writable
               /\ UNCHANGED <<http, hist>>
            \/ /\ http' = CloseSock(http)                       \* select() < 0
               /\ HttpReturn(-4)
               /\ UNCHANGED hist
            \/ /\ http' = [http EXCEPT !.elapsed = @ + 1]       \* select() = 0
               /\ ThdPass
               /\ UNCHANGED call
    /\ UNCHANGED HttpFrame

\* if (sent <= 0)
SendFailed(sent) == sent \in {"error", "zero"}

\* snprintf() and send(): what send() returns is below zero, zero, less than
\* strlen(request_buf), or all of it.
HttpSend ==
    /\ call.pc = "send"
    /\ \E sent \in {"error", "zero", "partial", "full"} :
          /\ IF SendFailed(sent)
             THEN /\ http' = CloseSock(http)
                  /\ HttpReturn(-5)
             ELSE /\ http' = [http EXCEPT !.elapsed = 0, !.total_received = 0]
                  /\ call' = [call EXCEPT !.pc = "recv_wait"]
          /\ hist' = Noted(hist, sent, "none", 0)
    /\ UNCHANGED HttpFrame

\* After the receive loop: terminate the buffer, close, return the count.
HttpFinish ==
    /\ http' = CloseSock(http)
    /\ HttpReturn(IF http.total_received > 0 THEN http.total_received ELSE -6)

\* A recv() asked for one byte more than the room left before the terminator.
RecvLen_whole(h) == h.buf_size - h.total_received

\* The length recv() is asked for: buf_size - total_received - 1
RecvLen(h) == h.buf_size - h.total_received - 1

\* A successful read that leaves start_time alone.
AfterRecv_running(h, received) == [h EXCEPT !.total_received = @ + received]

\* total_received += received; start_time = timer_ms_gettime64()
AfterRecv(h, received) == [h EXCEPT !.total_received = @ + received, !.elapsed = 0]

\* One iteration of the receive loop.
HttpRecvWait ==
    /\ call.pc = "recv_wait"
    /\ IF ~(http.total_received < http.buf_size - 1) \/ http.elapsed > TimeoutTicks
       THEN /\ HttpFinish
            /\ hist' = Noted(hist, hist.sent,
                             IF http.total_received < http.buf_size - 1
                             THEN "timeout" ELSE "full", hist.silence)
       ELSE \/ /\ http' = [http EXCEPT !.elapsed = @ + 1]       \* nothing to read
               /\ hist' = Noted(ThdPassed(hist), hist.sent, "idle", hist.silence + 1)
               /\ UNCHANGED call
            \/ \E k \in {RecvChunk, Len(http.wire)} :            \* received > 0
                  LET n == Min(Min(k, Len(http.wire) - http.total_received),
                               RecvLen(http))
                  IN  /\ n > 0
                      /\ http' = AfterRecv(http, n)
                      /\ hist' = Noted(ThdPassed(hist), hist.sent, "data", 0)
                      /\ UNCHANGED call
            \/ /\ HttpFinish                                     \* received = 0
               /\ hist' = Noted(hist, hist.sent, "close", hist.silence)
            \/ /\ IF http.total_received = 0                     \* received < 0
                  THEN http' = CloseSock(http) /\ HttpReturn(-6)
                  ELSE HttpFinish
               /\ hist' = Noted(hist, hist.sent, "error", hist.silence)
    /\ UNCHANGED HttpFrame

(***************************************************************************)
(* http_get_request called on its own with a buffer of buf_size bytes      *)
(***************************************************************************)
\* http_get_request(hostname, path, response_buf, buf_size, timeout_ms)
HttpCall ==
    /\ call.pc = "idle"
    /\ \E b \in BufSizes :
          http' = [NoHttp EXCEPT !.buf_size = b]
    /\ call' = [NoCall EXCEPT !.pc = "open", !.by = "http"]
    /\ hist' = Noted(hist, "none", "none", 0)
    /\ UNCHANGED HttpFrame

\* The caller has the return value; the activation is gone.
HttpDone ==
    /\ call.pc = "http_ret"
    /\ call.by = "http"
    /\ call' = NoCall
    /\ http' = NoHttp
    /\ hist' = Noted(hist, "none", "none", 0)
    /\ UNCHANGED HttpFrame

NextHttp ==
    \/ HttpCall
    \/ HttpOpen
    \/ HttpConnectWait
    \/ HttpSend
    \/ HttpRecvWait
    \/ HttpDone

SpecHttp == InitHttp /\ [][NextHttp]_vars

\* The thread in the receive loop keeps running: select() returns after its
\* 100 ms at the latest and thd_pass() returns.
FairSpecHttp == SpecHttp /\ WF_vars(HttpRecvWait)

(***************************************************************************)
(* dcnow_fetch_data after the request                                      *)
(***************************************************************************)
FetchFrame == <<network_initialized, json_max_games, served, parse, net, ctx, worker, reader>>

\* The failure returns: error_message, data_valid = false.
FailData(d, text) == [d EXCEPT !.error_message = text, !.data_valid = FALSE]

\* A failure return that also drops the cache.
FetchFail_invalidates(code, text) ==
    /\ data' = [data EXCEPT ![call.slot] = FailData(@, text)]
    /\ call' = [call EXCEPT !.pc = "returned", !.ret = code]
    /\ cache_valid' = FALSE
    /\ UNCHANGED cached_data

\* strcpy(data->error_message, text); data->data_valid = false; return code;
FetchFail(code, text) ==
    /\ data' = [data EXCEPT ![call.slot] = FailData(@, text)]
    /\ call' = [call EXCEPT !.pc = "returned", !.ret = code]
    /\ UNCHANGED <<cached_data, cache_valid>>

\* "if (result < 0)", the checks of the response, the JSON decoder and
\* "Copy parsed data to result structure".
FetchAfterHttp ==
    /\ call.pc = "http_ret"
    /\ IF call.result < 0
       THEN FetchFail(call.result, NetworkErrorText(call.result))
       ELSE \E r \in {Processed[Response][json_max_games]} :
               IF r.ret # 0
               THEN FetchFail(r.ret, r.error_message)
               ELSE /\ data' = [data EXCEPT ![call.slot] = CopyParsed(@, r.json)]
                    /\ call' = [call EXCEPT !.pc = "set_valid"]
                    /\ UNCHANGED <<cached_data, cache_valid>>
    /\ UNCHANGED <<hist, http, FetchFrame>>

\* data->data_valid = true; data->last_update_time = timer_ms_gettime64():
\* the clock reading is the ordinal of the fetch.
FetchSetValid ==
    /\ call.pc = "set_valid"
    /\ data' = [data EXCEPT ![call.slot] =
                    [@ EXCEPT !.data_valid = TRUE, !.last_update_time = hist.fetches]]
    /\ call' = [call EXCEPT !.pc = "cache1"]
    /\ UNCHANGED <<cached_data, cache_valid, hist, http, FetchFrame>>

\* memcpy(&cached_data, data, sizeof(dcnow_data_t)), first part
FetchCache1 ==
    /\ call.pc = "cache1"
    /\ cached_data' = CopyPart1(cached_data, data[call.slot])
    /\ call' = [call EXCEPT !.pc = "cache2"]
    /\ hist' = [hist EXCEPT !.zeroed = FALSE]
    /\ UNCHANGED <<data, cache_valid, http, FetchFrame>>

\* memcpy(&cached_data, data, sizeof(dcnow_data_t)), second part
FetchCache2 ==
    /\ call.pc = "cache2"
    /\ cached_data' = CopyPart2(cached_data, data[call.slot])
    /\ call' = [call EXCEPT !.pc = "cache_flag"]
    /\ hist' = [hist EXCEPT !.stored = data[call.slot]]
    /\ reader' = IF reader.pc \in {"copy1", "copy2"} /\ reader.from = 0
                 THEN [reader EXCEPT !.seen = @ \cup {data[call.slot]}]
                 ELSE reader
    /\ UNCHANGED <<data, cache_valid, http, network_initialized, json_max_games, served, parse, net, ctx,
                   worker>>

\* cache_valid = true; return 0
FetchCacheFlag ==
    /\ call.pc = "cache_flag"
    /\ cache_valid' = TRUE
    /\ call' = [call EXCEPT !.pc = "returned", !.ret = 0]
    /\ hist' = [hist EXCEPT !.last_good = data[call.slot], !.cleared = FALSE]
    /\ UNCHANGED <<data, cached_data, http, FetchFrame>>

FetchStep ==
    \/ FetchMemset
    \/ HttpOpen
    \/ HttpConnectWait
    \/ HttpSend
    \/ HttpRecvWait
    \/ FetchAfterHttp
    \/ FetchSetValid
    \/ FetchCache1
    \/ FetchCache2
    \/ FetchCacheFlag

(***************************************************************************)
(* dcnow_api.c: the calls of the main context                              *)
(***************************************************************************)
\* No call of the dcnow_api is in progress.
Quiescent == call.pc = "idle" /\ reader.pc \in {"idle", "done"}

ApiFrame == <<json_max_games, served, parse, net, data, ctx, worker, call, http, reader>>

dcnow_init ==
    /\ Quiescent
    /\ cached_data' = ZeroData
    /\ cache_valid' = FALSE
    /\ network_initialized' = TRUE
    /\ hist' = [hist EXCEPT !.cleared = TRUE, !.zeroed = TRUE, !.stored = ZeroData,
                            !.last_good = ZeroData]
    /\ UNCHANGED ApiFrame

dcnow_shutdown ==
    /\ Quiescent
    /\ cache_valid' = FALSE
    /\ hist' = [hist EXCEPT !.cleared = TRUE, !.last_good = ZeroData]
    /\ UNCHANGED <<cached_data, network_initialized, ApiFrame>>

\* A clear that wipes the structure but forgets the flag.
dcnow_clear_cache_keeps_flag ==
    /\ Quiescent
    /\ cached_data' = ZeroData
    /\ hist' = [hist EXCEPT !.cleared = TRUE, !.zeroed = TRUE, !.stored = ZeroData,
                            !.last_good = ZeroData]
    /\ UNCHANGED <<cache_valid, network_initialized, ApiFrame>>

dcnow_clear_cache ==
    /\ Quiescent
    /\ cached_data' = ZeroData
    /\ cache_valid' = FALSE
    /\ hist' = [hist EXCEPT !.cleared = TRUE, !.zeroed = TRUE, !.stored = ZeroData,
                            !.last_good = ZeroData]
    /\ UNCHANGED <<network_initialized, ApiFrame>>

\* dcnow_fetch_data(NULL, timeout_ms)
ApiFetchNull ==
    /\ Quiescent
    /\ UNCHANGED vars

\* dcnow_fetch_data(&out, timeout_ms) called on the main context
ApiFetchCall ==
    /\ Quiescent
    /\ FetchEnter(0, "main")
    /\ UNCHANGED <<cached_data, cache_valid, network_initialized, json_max_games, served, parse, net, data,
                   ctx, worker, reader>>

ApiFetchReturn ==
    /\ call.pc = "returned"
    /\ call.by = "main"
    /\ call' = NoCall
    /\ http' = NoHttp
    /\ hist' = [hist EXCEPT !.cache_before = [data |-> ZeroData, valid |-> FALSE],
                            !.out_before = ZeroData]
    /\ UNCHANGED <<cached_data, cache_valid, network_initialized, json_max_games, served, parse, net, data,
                   ctx, worker, reader>>

(***************************************************************************)
(* The reads of the main context: dcnow_get_cached_data(&copy), and the    *)
(* caller's read of ctx->result_data after a poll                          *)
(***************************************************************************)
ReaderFrame == <<cached_data, cache_valid, network_initialized, json_max_games, served, parse, net, data, ctx,
                 worker, call, http, hist>>

\* The main context is between two of its calls.
MainIdle == reader.pc \in {"idle", "done"}

\* if (!data || !cache_valid) return false; the caller passes a zeroed copy.
ReaderCheck ==
    /\ MainIdle
    /\ reader' = IF cache_valid
                 THEN [NoReader EXCEPT !.pc = "copy1", !.seen = {hist.stored}]
                 ELSE NoReader
    /\ UNCHANGED ReaderFrame

\* The structure a read copies from.
ReadSource == IF reader.from = 0 THEN cached_data ELSE data[reader.from]

\* memcpy(data, &cached_data, sizeof(dcnow_data_t)), first part
ReaderCopy1 ==
    /\ reader.pc = "copy1"
    /\ reader' = [reader EXCEPT !.pc = "copy2", !.copy = CopyPart1(@, ReadSource)]
    /\ UNCHANGED ReaderFrame

\* memcpy(data, &cached_data, sizeof(dcnow_data_t)), second part; return true
ReaderCopy2 ==
    /\ reader.pc = "copy2"
    /\ reader' = [reader EXCEPT !.pc = "done", !.copy = CopyPart2(@, ReadSource),
                                !.ret = TRUE]
    /\ UNCHANGED ReaderFrame

(***************************************************************************)
(* dcnow_worker.h: the worker state machine.  The main context starts,     *)
(* polls and cancels; the worker thread runs one operation at a time.      *)
(***************************************************************************)
InFlight(c) == ctx[c].state \in {"CONNECTING", "FETCHING"}

\* bool dcnow_worker_is_busy(void)
dcnow_worker_is_busy == worker.busy

\* The context as an accepted start leaves it.
StartedCtx(state, text) ==
    [state |-> state, status_message |-> text, error_code |-> 0,
     cancel_requested |-> FALSE]

\* The budget of fetches is a bound of the model.
Startable(op) == op = "start_fetch" => hist.fetches < MaxFetches

\* A busy guard that looks at the state of its own context only.
StartReturn_own(c) == IF InFlight(c) THEN -1 ELSE 0

\* What a start returns: -1 (busy) while a run is active anywhere, else 0.
StartReturn(c) == IF dcnow_worker_is_busy \/ InFlight(c) THEN -1 ELSE 0

\* Both starts: a busy start returns at once; otherwise the context enters
\* its active state and the worker thread is launched.
dcnow_worker_start(c, op, state, text) ==
    /\ MainIdle
    /\ Startable(op)
    /\ reader' = NoReader
    /\ IF StartReturn(c) # 0
       THEN UNCHANGED <<ctx, worker, hist>>
       ELSE /\ ctx' = [ctx EXCEPT ![c] = StartedCtx(state, text)]
            /\ worker' = [busy |-> TRUE, ctx |-> c, op |-> op, pc |-> "begin", code |-> 0]
            /\ hist' = [hist EXCEPT !.kind[c] = op, !.published[c] = ZeroData]
    /\ UNCHANGED <<cached_data, cache_valid, network_initialized, json_max_games, served, parse, net,
                   data, call, http>>

dcnow_worker_start_connect(c) ==
    dcnow_worker_start(c, "start_connect", "CONNECTING", "Connecting")

dcnow_worker_start_fetch(c) ==
    dcnow_worker_start(c, "start_fetch", "FETCHING", "Fetching")

\* dcnow_worker_poll(ctx) returns ctx->state and changes nothing; on DONE of a
\* fetch the caller goes on to read ctx->result_data.
dcnow_worker_poll(c) ==
    /\ MainIdle
    /\ reader' = IF ctx[c].state = "DONE" /\ hist.kind[c] = "start_fetch"
                 THEN [NoReader EXCEPT !.pc = "copy1", !.from = c]
                 ELSE NoReader
    /\ UNCHANGED ReaderFrame

\* dcnow_worker_cancel(ctx), called on a run in flight
dcnow_worker_cancel(c) ==
    /\ MainIdle
    /\ InFlight(c)
    /\ ctx' = [ctx EXCEPT ![c].cancel_requested = TRUE]
    /\ reader' = NoReader
    /\ UNCHANGED <<cached_data, cache_valid, network_initialized, json_max_games, served, parse, net, data,
                   worker, call, http, hist>>

\* The worker thread writes error_code and status_message of its context.
Report(c, code, text) ==
    [ctx EXCEPT ![c].error_code = code, ![c].status_message = text]

\* The thread starts: a cancel request that is already there ends the run
\* before any I/O; otherwise the operation is entered.
WorkerBegin ==
    /\ worker.pc = "begin"
    /\ IF ctx[worker.ctx].cancel_requested
       THEN /\ ctx' = Report(worker.ctx, -1, "Cancelled")
            /\ worker' = [worker EXCEPT !.pc = "set_state", !.code = -1]
            /\ UNCHANGED <<call, http, hist>>
       ELSE IF worker.op = "start_fetch"
       THEN /\ FetchEnter(worker.ctx, "worker")
            /\ worker' = [worker EXCEPT !.pc = "fetching"]
            /\ UNCHANGED ctx
       ELSE /\ worker' = [worker EXCEPT !.pc = "connecting"]
            /\ UNCHANGED <<ctx, call, http, hist>>
    /\ UNCHANGED <<cached_data, cache_valid, network_initialized, json_max_games, served, parse, net, data,
                   reader>>

\* The blocking establishment of the connection returns.
WorkerConnect ==
    /\ worker.pc = "connecting"
    /\ \E established \in BOOLEAN :
          IF established
          THEN /\ ctx' = Report(worker.ctx, 0, "Connected")
               /\ worker' = [worker EXCEPT !.pc = "set_state", !.code = 0]
          ELSE /\ ctx' = Report(worker.ctx, -2, "Connection failed")
               /\ worker' = [worker EXCEPT !.pc = "set_state", !.code = -2]
    /\ UNCHANGED <<cached_data, cache_valid, network_initialized, json_max_games, served, parse, net, data,
                   call, http, reader, hist>>

\* dcnow_fetch_data(&ctx->result_data, timeout_ms) has returned to the thread.
WorkerAfterFetch ==
    /\ worker.pc = "fetching"
    /\ call.pc = "returned"
    /\ call.by = "worker"
    /\ ctx' = IF call.ret = 0
              THEN Report(worker.ctx, 0, "Done")
              ELSE Report(worker.ctx, call.ret, data[worker.ctx].error_message)
    /\ worker' = [worker EXCEPT !.pc = "set_state", !.code = call.ret]
    /\ hist' = [hist EXCEPT !.cache_before = [data |-> ZeroData, valid |-> FALSE],
                            !.out_before = ZeroData,
                            !.published[worker.ctx] = data[worker.ctx]]
    /\ call' = NoCall
    /\ http' = NoHttp
    /\ UNCHANGED <<cached_data, cache_valid, network_initialized, json_max_games, served, parse, net, data,
                   reader>>

\* The terminal state, the last write of the run to its context.
WorkerSetState ==
    /\ worker.pc = "set_state"
    /\ ctx' = [ctx EXCEPT ![worker.ctx].state = IF worker.code = 0 THEN "DONE" ELSE "ERROR"]
    /\ worker' = [worker EXCEPT !.pc = "exit"]
    /\ UNCHANGED <<cached_data, cache_valid, network_initialized, json_max_games, served, parse, net, data,
                   call, http, reader, hist>>

\* A thread that stamps the result once more on its way out.
WorkerExit_stamps ==
    /\ worker.pc = "exit"
    /\ worker' = NoWorker
    /\ data' = [data EXCEPT ![worker.ctx].last_update_time = @ + 1]
    /\ UNCHANGED <<cached_data, cache_valid, network_initialized, json_max_games, served, parse, net, ctx,
                   call, http, reader, hist>>

\* The thread ends: the process-wide busy flag is released.
WorkerExit ==
    /\ worker.pc = "exit"
    /\ worker' = NoWorker
    /\ UNCHANGED <<cached_data, cache_valid, network_initialized, json_max_games, served, parse, net, data,
                   ctx, call, http, reader, hist>>

\* The calls of the dcnow_api made one after the other on one context.
NextApi ==
    \/ dcnow_init
    \/ dcnow_shutdown
    \/ dcnow_clear_cache
    \/ ApiFetchNull
    \/ ApiFetchCall
    \/ FetchStep
    \/ ApiFetchReturn
    \/ (call.pc = "idle" /\ ReaderCheck)
    \/ ReaderCopy1
    \/ ReaderCopy2

SpecApi == Init /\ [][NextApi]_vars

(***************************************************************************)
(* Properties of the sequential API (SpecApi)                              *)
(***************************************************************************)
Returned == call.pc = "returned"
Out == data[call.slot]
ZeroedFields(d) ==
    /\ d.total_players = 0
    /\ d.game_count = 0
    /\ \A i \in GameIdx : d.games[i] = ZeroGame
    /\ d.last_update_time = 0

\* The status code an HTTP/1.x status line reports: "HTTP/1." digit SP
\* 3DIGIT; 0 when the text does not begin with such a line.
ReportedCode(response) ==
    IF /\ Len(response) >= 12
       /\ StartsWithAt(response, 1, "HTTP/1.")
       /\ isdigit(At(response, 8))
       /\ At(response, 9) = " "
       /\ \A i \in 10..12 : isdigit(At(response, i))
    THEN 100 * DigitVal(At(response, 10)) + 10 * DigitVal(At(response, 11))
             + DigitVal(At(response, 12))
    ELSE 0
HasBoundary(response) == IndexFrom(response, 1, Boundary) # 0
Received == Returned /\ call.result > 0

\* C1: a fetch that returns a failure code leaves cached_data and
\* cache_valid exactly as they were when the fetch was entered.
C1_FailedFetchKeepsCache ==
    (Returned /\ call.ret # 0) =>
        /\ cached_data = hist.cache_before.data
        /\ cache_valid = hist.cache_before.valid
\* A fetch has failed while the cache held an earlier good result.
C1_Witness == Returned /\ call.ret # 0 /\ cache_valid /\ cached_data.game_count > 0

\* C6: a result with data_valid false carries a non-empty error_message,
\* and its players, game count, game entries and time stamp are all zero.
C6_InvalidResultIsZeroedWithMessage ==
    (Returned /\ ~Out.data_valid) =>
        /\ Out.error_message # ""
        /\ ZeroedFields(Out)
\* A fetch has failed into a structure that held a good result before.
C6_Witness ==
    Returned /\ ~Out.data_valid /\ hist.out_before.data_valid
             /\ hist.out_before.game_count > 0

\* C7: between calls, game_count of every result and of the cache never exceeds
\* MAX_DCNOW_GAMES, whatever the capacity of the JSON decoder is.
C7_GameCountWithinCapacity ==
    (call.pc \in {"idle", "returned"}) =>
        /\ \A s \in Slots : data[s].game_count <= MaxDcnowGames
        /\ cached_data.game_count <= MaxDcnowGames

\* C8: between calls the cache never holds an invalid result: when
\* cache_valid is set, cached_data is the valid result of the most recent
\* successful fetch and no init, shutdown or clear came after it; after
\* init or clear the cache is zeroed and cache_valid is false.
C8_CacheHoldsLastGoodResult ==
    (call.pc \in {"idle", "returned"}) =>
        /\ cache_valid => /\ cached_data.data_valid
                          /\ cached_data = hist.last_good
                          /\ ~hist.cleared
        /\ hist.zeroed => (~cache_valid /\ cached_data = ZeroData)
\* The cache still holds the first fetch's result after the second failed.
C8_Witness ==
    /\ call.pc = "idle"
    /\ cache_valid
    /\ hist.fetches = 2
    /\ cached_data.last_update_time = 1

\* C9 as stated: every received response whose status line reports a code
\* other than 200 is rejected with -8, the message names the code, and the
\* cache is not touched.
C9_Non200Rejected ==
    (Received /\ ReportedCode(Response) \notin {0, 200}) =>
        /\ call.ret = -8
        /\ Out.error_message = "HTTP error " \o ToString(ReportedCode(Response))
        /\ ~Out.data_valid
        /\ cached_data = hist.cache_before.data
        /\ cache_valid = hist.cache_before.valid
\* C9 amended: the same, for the received responses that contain the
\* header/body boundary; one cut before the boundary is rejected earlier as
\* an invalid response.
C9_Non200RejectedAfterBoundary ==
    (Received /\ HasBoundary(Response) /\ ReportedCode(Response) \notin {0, 200}) =>
        /\ call.ret = -8
        /\ Out.error_message = "HTTP error " \o ToString(ReportedCode(Response))
        /\ ~Out.data_valid
        /\ cached_data = hist.cache_before.data
        /\ cache_valid = hist.cache_before.valid
\* A complete 404 response was rejected while the cache held a good result.
C9_Witness ==
    /\ Received
    /\ HasBoundary(Response)
    /\ ReportedCode(Response) = 404
    /\ call.ret = -8
    /\ cache_valid

\* C10: a fetch succeeds only on a response that begins with "HTTP/1." and
\* whose status line carries the code 200.
C10_SuccessNeedsHttp200 ==
    (Returned /\ call.ret = 0) =>
        /\ StartsWithAt(Response, 1, "HTTP/1.")
        /\ ReportedCode(Response) = 200


(***************************************************************************)
(* Properties of the worker runs (Spec)                                    *)
(***************************************************************************)
\* C2: a copy returned by dcnow_get_cached_data while a fetch overwrites the
\* cache is one complete version of the cache: the one stored when the read
\* began or one stored completely while it ran, never a mixture.
C2_ReaderSeesWholeVersion ==
    (reader.pc = "done" /\ reader.from = 0 /\ reader.ret) =>
        reader.copy \in reader.seen

\* C3: while a context of a fetch run shows DONE, its result_data is the
\* complete valid result the fetch returned and no fetch is writing it, so
\* the copy the caller takes after polling DONE is that whole result.
C3_DonePublishesWholeResult ==
    /\ \A c \in Ctxs :
          (ctx[c].state = "DONE" /\ hist.kind[c] = "start_fetch") =>
              /\ data[c] = hist.published[c]
              /\ data[c].data_valid
              /\ ~(call.by = "worker" /\ call.slot = c)
    /\ (reader.pc = "done" /\ reader.from \in Ctxs) =>
          reader.copy = hist.published[reader.from]
\* The caller has copied a published feed while the thread was still alive.
C3_Witness ==
    /\ reader.pc = "done"
    /\ reader.from \in Ctxs
    /\ reader.copy.data_valid
    /\ reader.copy.game_count > 0
    /\ worker.busy

\* C4, the states: at most one context is CONNECTING or FETCHING, it is the
\* context of the one busy thread, and while it is so every start returns -1.
OneRunInFlight ==
    /\ Cardinality({c \in Ctxs : InFlight(c)}) <= 1
    /\ \A c \in Ctxs : InFlight(c) => (worker.busy /\ worker.ctx = c)
    /\ (\E d \in Ctxs : InFlight(d)) => \A c \in Ctxs : StartReturn(c) = -1
\* C4, the steps: a start made while a run is in flight launches nothing and
\* leaves every context, every result and the thread as they were.
BusyStartChangesNothing ==
    \A c \in Ctxs :
        ((\E d \in Ctxs : InFlight(d))
            /\ (dcnow_worker_start_fetch(c) \/ dcnow_worker_start_connect(c)))
        => UNCHANGED <<ctx, data, worker, call, http, cached_data, cache_valid>>
\* C4: at most one worker run is in flight; a start made while a run is
\* CONNECTING or FETCHING on any context returns -1, starts no second run and
\* changes neither state, status message, result nor cancel flag of the run.
C4_OneRunAndBusyStartRejected == []OneRunInFlight /\ [][BusyStartChangesNothing]_vars
\* A fetch is in the middle of its exchange with its cancel flag set, and the
\* other context is in a terminal state, free to start by its own state.
C4_Witness ==
    /\ \E c \in Ctxs : /\ ctx[c].state = "FETCHING"
                       /\ ctx[c].cancel_requested
                       /\ \E d \in Ctxs \ {c} : ctx[d].state \in {"DONE", "ERROR"}
    /\ call.pc = "recv_wait"

\* C5: once the thread has passed a yield point of the HTTP loops with the
\* cancel flag of its run set, the exchange does not complete and the run
\* ends in ERROR with the reason cancelled.
C5_CancelStopsExchange ==
    hist.yielded_cancelled =>
        /\ ~(call.by = "worker"
               /\ call.pc \in {"http_ret", "set_valid", "cache1", "cache2", "cache_flag",
                               "returned"}
               /\ call.result > 0)
        /\ (worker.op = "start_fetch" /\ worker.pc \in {"set_state", "exit"}) =>
              ctx[worker.ctx].status_message = "Cancelled"

(***************************************************************************)
(* Properties of http_get_request (SpecHttp, FairSpecHttp)                 *)
(***************************************************************************)
InRequest == call.pc \in {"connect_wait", "send", "recv_wait"}
HttpReturned == call.pc = "http_ret"
CanRecv == http.total_received < http.buf_size - 1 /\ http.elapsed <= TimeoutTicks

\* C11: after a send that transmitted only part of the request the function
\* is returning the send failure code -5; the receive loop is never entered.
C11_PartialSendFails ==
    hist.sent = "partial" => (HttpReturned /\ call.result = -5)

\* C12, the states: in the receive loop the timer reads the time since the
\* last byte arrived and never runs more than one wait past the timeout; the
\* loop has ended only on a full buffer, a close, a receive error, or after a
\* silence longer than the timeout.
RecvLoopTimer ==
    /\ call.pc = "recv_wait" =>
          /\ http.elapsed = hist.silence
          /\ hist.silence <= TimeoutTicks + 1
          /\ hist.event \in {"none", "idle", "data"}
    /\ (HttpReturned /\ hist.sent \in {"partial", "full"}) =>
          /\ hist.event \in {"full", "close", "error", "timeout"}
          /\ hist.event = "full" => http.total_received = http.buf_size - 1
          /\ hist.event = "timeout" => hist.silence > TimeoutTicks
\* C12, the progress: the receive loop always ends.
RecvLoopEnds == (call.pc = "recv_wait") ~> HttpReturned
\* C12: the receive loop ends only when the buffer is full, the peer closes,
\* a receive error occurs or no byte arrived for longer than the timeout; the
\* timer restarts on every successful read; a silent peer always ends it.
C12_RecvLoopEndsOnSilenceOnly == []RecvLoopTimer /\ RecvLoopEnds
\* Bytes arrived, then the peer went silent and the loop ended on the timeout.
C12_Witness ==
    /\ HttpReturned
    /\ hist.event = "timeout"
    /\ http.total_received > 0
    /\ call.result = http.total_received

\* C17: while the request runs its socket is open and was never closed; at
\* every return the socket, when one was created, has been closed exactly
\* once; a failed socket() is the only return without a close.
C17_SocketClosedOnce ==
    /\ http.closes <= 1
    /\ InRequest => (http.sock = "open" /\ http.closes = 0)
    /\ HttpReturned =>
          IF call.result = -2
          THEN http.sock = "none" /\ http.closes = 0
          ELSE http.sock = "closed" /\ http.closes = 1
\* The request failed on a receive error before any byte and closed its socket.
C17_Witness ==
    /\ HttpReturned
    /\ call.result = -6
    /\ hist.event = "error"
    /\ http.closes = 1

\* C18: total_received stays within 0..buf_size - 1 (so the terminator is
\* written inside the buffer), every recv() is asked for at least one byte
\* and never for more than the room left, and a return after the receive
\* loop is the byte count when that is positive and -6 otherwise.
C18_ReceiveWithinBuffer ==
    /\ http.total_received >= 0
    /\ http.total_received <= http.buf_size - 1
    /\ (call.pc = "recv_wait" /\ CanRecv) =>
          /\ RecvLen(http) >= 1
          /\ RecvLen(http) <= http.buf_size - 1 - http.total_received
    /\ (HttpReturned /\ hist.event # "none") =>
          /\ call.result # 0
          /\ call.result > 0 => call.result = http.total_received
          /\ http.total_received = 0 => call.result = -6
\* A buffer of more than two bytes was filled to its last free byte.
C18_Witness ==
    /\ HttpReturned
    /\ hist.event = "full"
    /\ http.buf_size > 2
    /\ http.total_received = http.buf_size - 1
    /\ call.result = http.total_received

(***************************************************************************)
(* dcnow_json_parse on its own (SpecJson): the feeds it is given           *)
(***************************************************************************)
RECURSIVE JsonEscape(_)
\* A name as a JSON string body: quote and backslash are escaped.
JsonEscape(name) ==
    IF name = "" THEN ""
    ELSE Let(At(name, 1), LAMBDA c :
           (IF c = QUOTE \/ c = BACKSLASH THEN BACKSLASH \o c ELSE c)
               \o JsonEscape(From(name, 2)))

EncodeGame(g) ==
    "{\"name\":\"" \o JsonEscape(g.name) \o "\",\"players\":" \o ToString(g.players) \o "}"

RECURSIVE EncodeGames(_)
EncodeGames(games) ==
    IF Len(games) = 0 THEN ""
    ELSE IF Len(games) = 1 THEN EncodeGame(games[1])
    ELSE EncodeGame(games[1]) \o "," \o EncodeGames(Tail(games))

\* The wire payload of spec.md section 6 for a value [total_players, games].
Encode(v) ==
    "{\"total_players\":" \o ToString(v.total_players) \o ",\"games\":["
        \o EncodeGames(v.games) \o "]}"

\* The first n letters.
Alpha(n) == SubSeq("abcdefghijklmnop", 1, n)

\* Names that fit a decoded name (at most JsonMaxNameLen - 1 characters), over
\* letters, braces, the quote and the backslash.
FittingNames ==
    {"", "a", Alpha(JsonMaxNameLen - 1), "{", "}", QUOTE, BACKSLASH,
     "a" \o QUOTE \o ":"}
\* Properly terminated names of more characters than a decoded name holds.
LongNames == {Alpha(JsonMaxNameLen), Alpha(JsonMaxNameLen + 1)}

PlayerCounts == {0, 7}

GameValues == [name : FittingNames \cup LongNames, players : PlayerCounts]

\* The lists of at most n games.
GameLists(n) == UNION {[1..k -> GameValues] : k \in 0..n}

\* The feeds of the wire shape, with at most JSON_MAX_GAMES games.
WireValues == [total_players : {12}, games : GameLists(MaxDcnowGames)]

\* A feed of plain games, to cut short or to damage.
PlainValue(n) ==
    [total_players |-> 12, games |-> [i \in 1..n |-> [name |-> "a", players |-> 7]]]

\* Feeds whose array is opened and whose text ends before the closing
\* bracket: every cut of a plain feed from the bracket on.
CutTexts ==
    UNION {Let(Encode(PlainValue(n)), LAMBDA t :
             {SubSeq(t, 1, k) : k \in IndexFrom(t, 1, "[")..(Len(t) - 2)})
           : n \in 1..MaxDcnowGames}

\* Texts whose first character after the white space is not '{'.
NoBraceTexts == {"", "  ", "[1]", " [{}]", "x" \o Encode(PlainValue(1))}

\* Whole feeds with a number or a string that cannot be parsed.
BadFieldTexts ==
    {"{\"total_players\":x,\"games\":[{\"name\":\"a\",\"players\":7}]}",
     "{\"total_players\":12,\"games\":[{\"name\":\"a\",\"players\":-}]}",
     "{\"total_players\":12,\"games\":[{\"name\":a,\"players\":7}]}",
     "{\"total_players\":12,\"games\":[{\"players\":7,\"name\":\"a}]}"}

ParseOf(kind, text, value) ==
    [pc |-> "given", kind |-> kind, text |-> text, value |-> value, result |-> JsonFail]

\* The calls of dcnow_json_parse the model makes (json_str and result are
\* never NULL).
ParseInputs ==
    {ParseOf("wire", Encode(v), v) : v \in WireValues}
        \cup {ParseOf("cut", t, PlainValue(0)) : t \in CutTexts}
        \cup {ParseOf("nobrace", t, PlainValue(0)) : t \in NoBraceTexts}
        \cup {ParseOf("badfield", t, PlainValue(0)) : t \in BadFieldTexts}

InitJson ==
    /\ Loaded
    /\ json_max_games = MaxDcnowGames
    /\ served = {}
    /\ parse \in ParseInputs
    /\ net = NoNet

\* dcnow_json_parse(json_str, &result)
JsonParse ==
    /\ parse.pc = "given"
    /\ parse' = [parse EXCEPT
                   !.pc = "parsed",
                   !.result = dcnow_json_parse(parse.text, json_max_games, JsonMaxNameLen)]
    /\ UNCHANGED <<cached_data, cache_valid, network_initialized, json_max_games, served,
                   net, data, ctx, worker, call, http, reader, hist>>

NextJson == JsonParse

SpecJson == InitJson /\ [][NextJson]_vars

(***************************************************************************)
(* Properties of dcnow_json_parse (SpecJson)                               *)
(***************************************************************************)
Parsed(kind) == parse.pc = "parsed" /\ parse.kind = kind
Fits(name) == Len(name) <= JsonMaxNameLen - 1
SentGames == parse.value.games

\* C13: a terminated name of more characters than the capacity holds is
\* decoded to its first capacity - 1 characters, and the players of that game,
\* the number of games and the other games are decoded as they were sent.
C13_LongNameTruncated ==
    (Parsed("wire") /\ \A i \in 1..Len(SentGames) :
                          SentGames[i].name \in LongNames \cup {"a"})
        => /\ parse.result.ok
           /\ parse.result.game_count = Len(SentGames)
           /\ \A i \in 1..Len(SentGames) :
                 /\ parse.result.games[i].name =
                        Strncpy(SentGames[i].name, JsonMaxNameLen)
                 /\ parse.result.games[i].players = SentGames[i].players

\* C14: the parse fails, and the result is not valid, when the first
\* character after the white space is not '{' and when the games array is
\* opened but the text ends before its closing bracket; a feed with a bad
\* number or a bad string is still parsed.
C14_StructuralErrorFails ==
    /\ (Parsed("nobrace") \/ Parsed("cut")) =>
          (~parse.result.ok /\ ~parse.result.valid)
    /\ Parsed("badfield") => (parse.result.ok /\ parse.result.valid)

\* C15: a feed of the wire shape with at most capacity games, whose names fit,
\* is decoded to the value that was encoded: the same total_players, the same
\* games in the same order, each with its name and players.
C15_RoundTrip ==
    (Parsed("wire") /\ \A i \in 1..Len(SentGames) : Fits(SentGames[i].name))
        => /\ parse.result.ok
           /\ parse.result.total_players = parse.value.total_players
           /\ parse.result.games = SentGames

(***************************************************************************)
(* dcnow_net_init.c: dcnow_net_early_init (SpecNet, FairSpecNet)           *)
(***************************************************************************)
\* net_default_dev after net_init(): NULL, "bba...", "ppp..." or another name.
NetDevices == {"none", "bba", "ppp", "other"}

\* The builds and machines the function runs on: with or without
\* _arch_dreamcast, with libppp.a or with the weak stubs of dcnow_ppp_weak.c.
NetInputs ==
    {[NoNet EXCEPT !.arch = a, !.libppp = l, !.dev = d, !.link_up = u] :
        a \in {"dreamcast", "other"}, l \in {"linked", "weak"}, d \in NetDevices,
        u \in BOOLEAN}

InitNet ==
    /\ Loaded
    /\ json_max_games = MaxDcnowGames
    /\ served = {}
    /\ parse = NoParse
    /\ net \in NetInputs

NetFrame == <<cached_data, cache_valid, network_initialized, json_max_games, served,
              parse, data, ctx, worker, call, http, reader, hist>>

\* return code, from the stage that failed ("none" on success)
NetReturn(n, stage, code) == [n EXCEPT !.pc = "returned", !.stage = stage, !.result = code]

\* A successful modem_init() / ppp_init(): what there is to shut down.
Acquire(n, what) == [n EXCEPT !.acquired = Append(@, what)]

\* A failure path after ppp_init() that shuts down the modem only.
ReleaseAll_modem_only(n) == [n EXCEPT !.released = @ \o <<"modem">>]

\* ppp_shutdown(); modem_shutdown();
ReleaseAll(n) == [n EXCEPT !.released = @ \o <<"ppp", "modem">>]

\* modem_shutdown();
ReleaseModem(n) == [n EXCEPT !.released = Append(@, "modem")]

\* The call: without _arch_dreamcast the function is "return -1".
dcnow_net_early_init ==
    /\ net.pc = "none"
    /\ net' = IF net.arch = "dreamcast" THEN [net EXCEPT !.pc = "net_init"]
              ELSE NetReturn(net, "arch", -1)
    /\ UNCHANGED NetFrame

\* net_init() and the look at net_default_dev, up to modem_init().
NetInit ==
    /\ net.pc = "net_init"
    /\ \E net_result \in {-1, 0} :
         net' = IF net_result < 0 THEN NetReturn(net, "net_init", -1)
                ELSE IF net.dev = "bba" THEN NetReturn(net, "none", 0)
                ELSE IF net.dev = "ppp"
                     THEN IF net.link_up
                          THEN NetReturn([net EXCEPT !.seen_up = TRUE], "none", 0)
                          ELSE [net EXCEPT !.pc = "modem_init", !.dialing = TRUE]
                ELSE NetReturn(net, "none", 0)
    /\ UNCHANGED NetFrame

\* if (modem_init() < 0) return -3;
ModemInit ==
    /\ net.pc = "modem_init"
    /\ \E r \in {-1, 0} :
         net' = IF r < 0 THEN NetReturn(net, "modem_init", -3)
                ELSE [Acquire(net, "modem") EXCEPT !.pc = "modem_set_mode"]
    /\ UNCHANGED NetFrame

\* if (modem_set_mode(MODEM_MODE_V90) < 0) { modem_shutdown(); return -4; }
ModemSetMode ==
    /\ net.pc = "modem_set_mode"
    /\ \E r \in {-1, 0} :
         net' = IF r < 0 THEN NetReturn(ReleaseModem(net), "modem_set_mode", -4)
                ELSE [net EXCEPT !.pc = "ppp_init"]
    /\ UNCHANGED NetFrame

\* ppp_init() of the build: the weak stub returns -1.
ppp_init_results(n) == IF n.libppp = "weak" THEN {-1} ELSE {-1, 0}

\* if (ppp_init() < 0) { modem_shutdown(); return -5; }
PppInit ==
    /\ net.pc = "ppp_init"
    /\ \E r \in ppp_init_results(net) :
         net' = IF r < 0 THEN NetReturn(ReleaseModem(net), "ppp_init", -5)
                ELSE [Acquire(net, "ppp") EXCEPT !.pc = "ppp_connect"]
    /\ UNCHANGED NetFrame

\* if (ppp_connect(...) < 0) { ppp_shutdown(); modem_shutdown(); return -6; }
PppConnect ==
    /\ net.pc = "ppp_connect"
    /\ \E r \in {-1, 0} :
         net' = IF r < 0 THEN NetReturn(ReleaseAll(net), "ppp_connect", -6)
                ELSE [net EXCEPT !.pc = "wait", !.wait_count = 0]
    /\ UNCHANGED NetFrame

\* One pass of "while (wait_count < max_wait)", and the timeout after it.
LinkWait ==
    /\ net.pc = "wait"
    /\ net' = IF net.wait_count < MaxWait
              THEN IF net.dev # "none" /\ net.link_up
                   THEN NetReturn([net EXCEPT !.seen_up = TRUE], "none", 0)
                   ELSE [net EXCEPT !.wait_count = @ + 1]
              ELSE NetReturn(ReleaseAll(net), "timeout", -7)
    /\ UNCHANGED NetFrame

\* The peer: the PPP link comes up or goes down while the function waits.
LinkChange ==
    /\ net.pc = "wait"
    /\ net' = [net EXCEPT !.link_up = ~@]
    /\ UNCHANGED NetFrame

NetStep ==
    \/ dcnow_net_early_init
    \/ NetInit
    \/ ModemInit
    \/ ModemSetMode
    \/ PppInit
    \/ PppConnect
    \/ LinkWait

NextNet == NetStep \/ LinkChange

SpecNet == InitNet /\ [][NextNet]_vars
\* timer_spin_sleep returns: the function keeps running.
FairSpecNet == SpecNet /\ WF_vars(NetStep)

(***************************************************************************)
(* Properties of dcnow_net_early_init (SpecNet, FairSpecNet)               *)
(***************************************************************************)
NetReturned == net.pc = "returned"

\* C16: the function returns 0 on success and otherwise the code its header
\* gives for the stage that failed: -1 modem hardware, -2 PPP subsystem init,
\* -5 ppp_connect, -6 timeout of the PPP connection.
C16_ReturnsDocumentedCode ==
    NetReturned =>
        /\ net.result = 0 <=> net.stage = "none"
        /\ net.result \in -6..0
        /\ net.stage = "modem_init" => net.result = -1
        /\ net.stage = "ppp_init" => net.result = -2
        /\ net.stage = "ppp_connect" => net.result = -5
        /\ net.stage = "timeout" => net.result = -6

\* What a failure return has shut down, given what was initialised.
ReleasedInReverse ==
    net.released = CASE net.acquired = <<>> -> <<>>
                     [] net.acquired = <<"modem">> -> <<"modem">>
                     [] net.acquired = <<"modem", "ppp">> -> <<"ppp", "modem">>
\* C19, the states: once dialing, a failure return has shut down what was
\* initialised, in reverse order, nothing is shut down before; the wait makes
\* at most max_wait polls and times out only after all of them; a success was
\* returned only on a poll that saw the link up.
NetReleases ==
    net.dialing =>
        /\ (NetReturned /\ net.result # 0) => ReleasedInReverse
        /\ ~NetReturned => net.released = <<>>
        /\ net.wait_count <= MaxWait
        /\ net.stage = "timeout" => net.wait_count = MaxWait
        /\ (NetReturned /\ net.result = 0) =>
              (net.seen_up /\ net.link_up /\ net.released = <<>>)
\* C19, the progress: the wait for the link always ends.
LinkWaitEnds == (net.pc = "wait") ~> NetReturned
Next ==
    \/ \E c \in Ctxs : dcnow_worker_start_connect(c)
    \/ \E c \in FetchCtxs : dcnow_worker_start_fetch(c)
    \/ \E c \in Ctxs : dcnow_worker_poll(c)
    \/ \E c \in Ctxs : dcnow_worker_cancel(c)
    \/ ReaderCheck
    \/ ReaderCopy1
    \/ ReaderCopy2
    \/ WorkerBegin
    \/ WorkerConnect
    \/ FetchStep
    \/ WorkerAfterFetch
    \/ WorkerSetState
    \/ WorkerExit

Spec == InitWorker /\ [][Next]_vars
====
